---- MODULE Spec2Model ----
(***************************************************************************)
(* covmed: coverage and insert-size estimate from an alignment stream, its *)
(* index and an optional interval list (src/covmed/main.go).               *)
(*                                                                         *)
(* Text is a sequence of one-character strings.  Floating-point results    *)
(* are kept exact: a mean is the fraction num/den, the coverage is kept as *)
(* its operands, a division by zero gives +Inf, -Inf or NaN as IEEE-754    *)
(* does; the rounding of float64 arithmetic and of the %.2f rendering is   *)
(* not modelled.  A Go int and a uint64 are 64 bits wide: they are kept as *)
(* four 16-bit limbs, so that they wrap around as in the code.             *)
(***************************************************************************)
EXTENDS Integers, Sequences, FiniteSets, TLC

\* ------------------------------------------------------------------ bounds
MaxLines == 3      \* lines of an interval-list file
MaxStream == 3     \* records of an alignment stream
MaxN == 2          \* largest sample cap cli.N tried
MaxRefs == 2       \* references of a header

\* ------------------------------------------------- constants of the libraries
ProperPair == 2
Unmapped == 4
Secondary == 256
QCFail == 512
Duplicate == 1024
Supplementary == 2048
\* strings.SplitN(line, "\t", 5)
SplitLimit == 5
\* cli.Bam[:len(cli.Bam)-4]
SuffixLen == 4

TAB == "\t"
NL == "\n"

\* ------------------------------------------------------------ small helpers
\* Go's integer division truncates toward zero.
GoDiv(a, b) == IF a >= 0 THEN a \div b ELSE -((-a) \div b)

RECURSIVE BitAnd(_, _)
BitAnd(a, b) ==
  IF a = 0 \/ b = 0 THEN 0
  ELSE (a % 2) * (b % 2) + 2 * BitAnd(a \div 2, b \div 2)

SeqsUpTo(S, k) == UNION {[1..m -> S] : m \in 0..k}

RECURSIVE SumSeq(_)
SumSeq(s) == IF s = <<>> THEN 0 ELSE s[1] + SumSeq(Tail(s))

\* ------------------------------------------------------------- 64-bit ints
\* Four 16-bit limbs, the least significant first, in two's complement.
LimbBase == 256 * 256

Zero64 == <<0, 0, 0, 0>>

\* a + b + carry, limb by limb; the carry out of the last limb is dropped.
RECURSIVE AddLimbs(_, _, _)
AddLimbs(a, b, carry) ==
  IF a = <<>> THEN <<>>
  ELSE LET t == a[1] + b[1] + carry
       IN  <<t % LimbBase>> \o AddLimbs(Tail(a), Tail(b), t \div LimbBase)

I64Not(a) == [i \in 1..Len(a) |-> LimbBase - 1 - a[i]]

\* a + b, a - b and -a of Go ints: modulo 2^64.  The sum of two uint64 has the
\* same limbs.
I64Add(a, b) == AddLimbs(a, b, 0)

I64Sub(a, b) == AddLimbs(a, I64Not(b), 1)

I64Neg(a) == AddLimbs(I64Not(a), Zero64, 1)

I64Negative(a) == a[4] >= LimbBase \div 2

\* The Go int of a small integer of the model (below 2^31 in size).
I64FromInt(k) ==
  LET m == IF k < 0 THEN -k ELSE k
      v == <<m % LimbBase, m \div LimbBase, 0, 0>>
  IN  IF k < 0 THEN I64Neg(v) ELSE v

\* ------------------------------------------------------------------ floats
Num(a, b) == [kind |-> "num", num |-> a, den |-> b]

\* float64(m) * median / float64(bases): m a uint64, median a whole number,
\* bases a Go int.  A finite quotient is kept as its three operands.
Coverage(m, median, bases) ==
  LET v(k) == [kind |-> k, mapped |-> m, median |-> median, bases |-> bases]
  IN  IF bases # Zero64 THEN v("num")
      ELSE IF m # Zero64 /\ median > 0 THEN v("+Inf")
      ELSE IF m # Zero64 /\ median < 0 THEN v("-Inf")
      ELSE v("NaN")

\* ------------------------------------------------------------- strconv.Atoi
Digits == {"0", "1", "2", "3", "4", "5", "6", "7", "8", "9"}

DigitVal(c) ==
  CASE c = "0" -> 0 [] c = "1" -> 1 [] c = "2" -> 2 [] c = "3" -> 3
    [] c = "4" -> 4 [] c = "5" -> 5 [] c = "6" -> 6 [] c = "7" -> 7
    [] c = "8" -> 8 [] c = "9" -> 9

\* 10 * a + d, limb by limb; the last limb of the result is the carry out.
RECURSIVE MulAdd10(_, _)
MulAdd10(a, d) ==
  IF a = <<>> THEN <<d>>
  ELSE LET t == 10 * a[1] + d
       IN  <<t % LimbBase>> \o MulAdd10(Tail(a), t \div LimbBase)

\* strconv.ParseUint(s, 10, 64) on decimal digits: the value, and whether it
\* stayed below 2^64.
RECURSIVE ParseUint(_)
ParseUint(s) ==
  IF s = <<>> THEN [ok |-> TRUE, val |-> Zero64]
  ELSE LET p == ParseUint(SubSeq(s, 1, Len(s) - 1))
           r == MulAdd10(p.val, DigitVal(s[Len(s)]))
       IN  [ok |-> p.ok /\ r[5] = 0, val |-> SubSeq(r, 1, 4)]

\* An optional sign, then one or more decimal digits, of a value from -2^63 to
\* 2^63 - 1; anything else is an error (syntax or range).
Atoi(s) ==
  LET signed == s # <<>> /\ s[1] \in {"+", "-"}
      neg == signed /\ s[1] = "-"
      body == IF signed THEN Tail(s) ELSE s
      syntax == body # <<>> /\ \A i \in 1..Len(body) : body[i] \in Digits
      un == ParseUint(body)
      range == /\ un.ok
               /\ \/ ~I64Negative(un.val)
                  \/ neg /\ un.val = <<0, 0, 0, LimbBase \div 2>>
      ok == syntax /\ range
  IN  [ok |-> ok,
       val |-> IF ~ok THEN Zero64 ELSE IF neg THEN I64Neg(un.val) ELSE un.val]

\* ------------------------------------------------- reading and splitting text
\* The position of the first occurrence of c in s, 0 when there is none.
IndexOf(s, c) ==
  IF \E i \in 1..Len(s) : s[i] = c
  THEN CHOOSE i \in 1..Len(s) : s[i] = c /\ \A j \in 1..(i - 1) : s[j] # c
  ELSE 0

\* bufio.Reader.ReadString('\n'): the bytes up to and including the delimiter;
\* at the end of the input, the bytes left over together with io.EOF.
ReadString(rest) ==
  LET i == IndexOf(rest, NL)
  IN  IF i = 0 THEN [line |-> rest, rest |-> <<>>, eof |-> TRUE]
      ELSE [line |-> SubSeq(rest, 1, i),
            rest |-> SubSeq(rest, i + 1, Len(rest)), eof |-> FALSE]

\* strings.TrimSuffix(line, "\n")
TrimSuffix(line) ==
  IF line # <<>> /\ line[Len(line)] = NL
  THEN SubSeq(line, 1, Len(line) - 1) ELSE line

\* strings.SplitN(s, "\t", k) for k > 0: at most k pieces, the last one unsplit.
RECURSIVE SplitN(_, _)
SplitN(s, k) ==
  LET i == IndexOf(s, TAB)
  IN  IF k <= 1 \/ i = 0 THEN <<s>>
      ELSE <<SubSeq(s, 1, i - 1)>> \o SplitN(SubSeq(s, i + 1, Len(s)), k - 1)

\* ------------------------------------------------------------- readCoverage
\* One turn of readCoverage's loop over the unread bytes `rest` with the running
\* total `cov`: the loop ends at io.EOF (whatever ReadString returned with it is
\* dropped), indexing toks[1] or toks[2] past the end panics, a field Atoi
\* rejects (syntax or range) panics through pcheck, and otherwise e - s is added
\* to the total, in 64-bit arithmetic.  A read error other than io.EOF, which
\* the code does not test for, is left out.
readLine(rest, cov) ==
  LET r == ReadString(rest)
      toks == SplitN(TrimSuffix(r.line), SplitLimit)
      s == Atoi(toks[2])
      e == Atoi(toks[3])
      stop(why) == [kind |-> "panic", why |-> why, cov |-> cov, rest |-> r.rest]
  IN  IF r.eof THEN [kind |-> "return", why |-> "", cov |-> cov, rest |-> r.rest]
      ELSE IF Len(toks) < 2 THEN stop("index out of range")
      ELSE IF ~s.ok THEN stop("strconv.Atoi")
      ELSE IF Len(toks) < 3 THEN stop("index out of range")
      ELSE IF ~e.ok THEN stop("strconv.Atoi")
      ELSE [kind |-> "next", why |-> "", cov |-> I64Add(cov, I64Sub(e.val, s.val)),
            rest |-> r.rest]

\* ----------------------------------------------------------- alignment records
\* sam.CigarOpType.Consumes(): what one base of an operation uses up.
ConsumesQuery(t) == IF t \in {"M", "I", "S", "=", "X"} THEN 1 ELSE 0

ConsumesReference(t) == IF t \in {"M", "D", "N", "=", "X"} THEN 1 ELSE 0

\* The read length of rec.Cigar.Lengths().
RECURSIVE ReadLength(_)
ReadLength(cigar) ==
  IF cigar = <<>> THEN 0
  ELSE cigar[1].len * ConsumesQuery(cigar[1].type) + ReadLength(Tail(cigar))

RECURSIVE RefSpan(_)
RefSpan(cigar) ==
  IF cigar = <<>> THEN 0
  ELSE cigar[1].len * ConsumesReference(cigar[1].type) + RefSpan(Tail(cigar))

\* rec.End(): one past the last reference base the alignment covers.  It is
\* called for mapped records of a single M block only, where it is pos + length.
End(rec) == rec.pos + RefSpan(rec.cigar)

FilterMask == Secondary + Supplementary + Unmapped + QCFail

FilteredNoQCFail(rec) == BitAnd(rec.flags, Secondary + Supplementary + Unmapped) # 0

\* rec.Flags&(Secondary|Supplementary|Unmapped|QCFail) != 0
Filtered(rec) == BitAnd(rec.flags, FilterMask) # 0

QualifiesAnySingleBlock(rec) ==
  /\ rec.pos < rec.matePos
  /\ BitAnd(rec.flags, ProperPair) = ProperPair
  /\ Len(rec.cigar) = 1

\* The pairing condition of the insert-size sample.
Qualifies(rec) ==
  /\ rec.pos < rec.matePos
  /\ BitAnd(rec.flags, ProperPair) = ProperPair
  /\ Len(rec.cigar) = 1
  /\ rec.cigar[1].type = "M"

AppendSizeUncapped(buf, cap, rec) == Append(buf, ReadLength(rec.cigar))

\* if len(sizes) < n { sizes = append(sizes, read) }
AppendSize(buf, cap, rec) ==
  IF Len(buf) < cap THEN Append(buf, ReadLength(rec.cigar)) ELSE buf

AppendInsert(buf, rec) ==
  IF Qualifies(rec) THEN Append(buf, rec.matePos - End(rec)) ELSE buf

AppendTemplate(buf, rec) ==
  IF Qualifies(rec) THEN Append(buf, rec.tempLen) ELSE buf

\* ------------------------------------------------------------------ statistics
RECURSIVE InsertSorted(_, _)
InsertSorted(s, x) ==
  IF s = <<>> THEN <<x>>
  ELSE IF x <= s[1] THEN <<x>> \o s
  ELSE <<s[1]>> \o InsertSorted(Tail(s), x)

\* sort.Ints
RECURSIVE SortInts(_)
SortInts(s) ==
  IF s = <<>> THEN <<>>
  ELSE InsertSorted(SortInts(SubSeq(s, 1, Len(s) - 1)), s[Len(s)])

Sqrt(f) == [kind |-> "sqrt", num |-> f.num, den |-> f.den]

\* meanStd: the mean and the population standard deviation; on an empty slice
\* neither loop runs and both stay 0.  The variance is
\* sum((a - mean)^2) / l = (l * sum(a^2) - sum(a)^2) / l^2.
meanStd(arr) ==
  LET l == Len(arr)
      sum == SumSeq(arr)
      sumSq == SumSeq([i \in 1..l |-> arr[i] * arr[i]])
  IN  IF l = 0 THEN [mean |-> Num(0, 1), std |-> Sqrt(Num(0, 1))]
      ELSE [mean |-> Num(sum, l), std |-> Sqrt(Num(l * sumSq - sum * sum, l * l))]

\* The statistics at the end of BamInsertSizes, over the sorted read lengths:
\* sizes[(len(sizes)-1)/2] panics when the slice is empty.
summary(sorted, ins, tls) ==
  LET i == GoDiv(Len(sorted) - 1, 2)
  IN  IF i >= Len(sorted) THEN [kind |-> "panic"]
      ELSE [kind |-> "sizes",
            InsertMean |-> meanStd(ins).mean,
            InsertSD |-> meanStd(ins).std,
            TemplateMean |-> meanStd(tls).mean,
            TemplateSD |-> meanStd(tls).std,
            ReadLengthMean |-> meanStd(sorted).mean,
            ReadLengthMedian |-> sorted[i + 1] - 1]

NoSizes == [kind |-> "none"]

\* ---------------------------------------------------------------- the header
\* genomeBases after one reference of the header: a reference the index has no
\* statistics for is skipped before its length is added.
GenomeBasesAfter(gb, len, ok) == IF ok THEN I64Add(gb, I64FromInt(len)) ELSE gb

\* mapped += stats.Mapped, in uint64.
MappedAfter(m, stats) == IF stats.ok THEN I64Add(m, stats.mapped) ELSE m

\* ------------------------------------------------------------------ the inputs
Rec(f, p, mp, tl, c) ==
  [flags |-> f, pos |-> p, matePos |-> mp, tempLen |-> tl, cigar |-> c]

Op(t, l) == [type |-> t, len |-> l]

RecordPool ==
  { Rec(1 + ProperPair, 10, 30, 25, <<Op("M", 5)>>),               \* a pair: insert 15
    Rec(ProperPair + Duplicate, 10, 40, 38, <<Op("M", 8)>>),       \* a pair: insert 22
    Rec(1 + ProperPair, 30, 10, -25, <<Op("M", 5)>>),              \* the right-hand mate
    Rec(1, 10, 30, 25, <<Op("M", 6)>>),                            \* not a proper pair
    Rec(1 + ProperPair, 10, 30, 25, <<Op("S", 2), Op("M", 3)>>),   \* clipped
    Rec(1 + ProperPair, 10, 30, 25, <<Op("=", 4)>>),               \* one block, not M
    Rec(0, 10, 10, 0, <<Op("M", 1)>>),                             \* single-end, length 1
    Rec(1 + ProperPair + Secondary, 10, 30, 25, <<Op("M", 5)>>),
    Rec(1 + ProperPair + QCFail, 10, 30, 25, <<Op("M", 7)>>),
    Rec(ProperPair + Supplementary, 10, 30, 25, <<Op("H", 2), Op("M", 3)>>),
    Rec(ProperPair + Unmapped, 10, 30, 25, <<Op("M", 5)>>) }

Streams == SeqsUpTo(RecordPool, MaxStream)

RegionLines ==
  { <<>>,
    <<"c", TAB, "0", TAB, "7">>,
    <<"c", TAB, "7", TAB, "1", "0">>,
    <<"c", TAB, "0", TAB, "1", "0", TAB, ".", TAB, ".">>,
    <<"c", TAB, "2", TAB, "9", TAB, ".", TAB, ".", TAB, "q">>,
    <<"c", TAB, "-", "3", TAB, "+", "4">>,
    <<"c", TAB, "7">>,
    <<"c", TAB, "x", TAB, "7">>,
    <<"c", TAB, "0", TAB, "7", "k">>,
    <<"c", TAB, "0", TAB, "9", "9", "9", "9", "9", "9", "9", "9", "9", "9",
      "9", "9", "9", "9", "9", "9", "9", "9", "9", "9">> }    \* past 2^63 - 1

\* The bytes of a file of the given lines, the last one newline-terminated or not.
RECURSIVE FileBytes(_, _)
FileBytes(lines, terminated) ==
  IF lines = <<>> THEN <<>>
  ELSE IF Len(lines) = 1 THEN lines[1] \o (IF terminated THEN <<NL>> ELSE <<>>)
  ELSE lines[1] \o <<NL>> \o FileBytes(Tail(lines), terminated)

RegionFiles ==
  {FileBytes(ls, t) : ls \in SeqsUpTo(RegionLines, MaxLines), t \in BOOLEAN}

RefLens == {100, 250}

NoStats == [ok |-> FALSE, mapped |-> Zero64]

StatsPool == {NoStats, [ok |-> TRUE, mapped |-> I64FromInt(40)]}

\* ------------------------------------------------------------------- the state
VARIABLES
  pc,               \* where the run is
  panic,            \* what the run panicked with, "" while it has not
  n,                \* cli.N
  bamLen,           \* len(cli.Bam)
  regions,          \* cli.Regions given or not
  regionBytes,      \* the bytes of the interval list
  header,           \* brdr.Header().Refs(): the reference lengths, in order
  index,            \* idx.ReferenceStats of each reference
  stream,           \* the records br.Read() will return
  open,             \* the file handles opened and not closed
  refi,             \* the reference the header loop is at
  genomeBases, mapped,
  stderr, stdout,
  rcRest, cov,      \* readCoverage: the unread bytes, the running total
  idx,              \* the records br.Read() has returned
  sizes, insertSizes, templateLengths,
  ret               \* what BamInsertSizes returned

inputs == <<n, bamLen, regions, regionBytes, header, index, stream>>

mainVars == <<open, refi, genomeBases, mapped, stderr, stdout>>

rcVars == <<rcRest, cov>>

scanVars == <<idx, sizes, insertSizes, templateLengths, ret>>

vars == <<pc, panic, inputs, mainVars, rcVars, scanVars>>

Fresh ==
  /\ panic = ""
  /\ open = {} /\ refi = 1 /\ genomeBases = Zero64 /\ mapped = Zero64
  /\ stderr = <<>> /\ stdout = <<>>
  /\ rcRest = <<>> /\ cov = Zero64
  /\ idx = 0 /\ sizes = <<>> /\ insertSizes = <<>> /\ templateLengths = <<>>
  /\ ret = NoSizes

Panic(why) == pc' = "panic" /\ panic' = why

\* What the run writes to standard error and to standard output.
UsageLine == <<"usage">>

LogLine == <<"log">>

Warning(ref) == <<"chromosome not found", ref>>

HelpText == [kind |-> "help"]

\* ------------------------------------------------------------------------ Main
\* arg.MustParse(&cli): a usage error writes the usage to standard error and
\* ends the process, a request for help writes the help to standard output and
\* ends it.
ParseArgs ==
  /\ pc = "parse"
  /\ \E outcome \in {"ok", "usage", "help"} :
       /\ pc' = IF outcome = "ok" THEN "log" ELSE "exit"
       /\ stderr' = IF outcome = "usage" THEN Append(stderr, UsageLine) ELSE stderr
       /\ stdout' = IF outcome = "help" THEN Append(stdout, HelpText) ELSE stdout
  /\ UNCHANGED <<panic, inputs, open, refi, genomeBases, mapped, rcVars, scanVars>>

\* log.Println(cli.Bam): the default logger writes to standard error.
LogPath ==
  /\ pc = "log"
  /\ stderr' = Append(stderr, LogLine)
  /\ pc' = "open_bam"
  /\ UNCHANGED <<panic, inputs, open, refi, genomeBases, mapped, stdout, rcVars, scanVars>>

\* fh, err := os.Open(cli.Bam); pcheck(err)
OpenBam ==
  /\ pc = "open_bam"
  /\ \E ok \in BOOLEAN :
       IF ok THEN open' = open \cup {"bam"} /\ pc' = "new_reader" /\ panic' = panic
       ELSE Panic("os.Open") /\ open' = open
  /\ UNCHANGED <<inputs, refi, genomeBases, mapped, stderr, stdout, rcVars, scanVars>>

\* brdr, err := bam.NewReader(fh, 2); pcheck(err)
NewReader ==
  /\ pc = "new_reader"
  /\ \E ok \in BOOLEAN :
       IF ok THEN pc' = "open_index" /\ panic' = panic ELSE Panic("bam.NewReader")
  /\ UNCHANGED <<inputs, mainVars, rcVars, scanVars>>

\* The index is opened at <bam>.bai and, failing that, at <bam less 4 bytes>.bai;
\* err is still that of NewReader (nil) unless the second open assigns it.
OpenIndex ==
  /\ pc = "open_index"
  /\ \E first \in BOOLEAN, second \in BOOLEAN :
       IF first \/ (bamLen >= SuffixLen /\ second)
       THEN open' = open \cup {"bai"} /\ pc' = "read_index" /\ panic' = panic
       ELSE IF bamLen < SuffixLen
       THEN Panic("slice bounds out of range") /\ open' = open
       ELSE Panic("os.Open") /\ open' = open
  /\ UNCHANGED <<inputs, refi, genomeBases, mapped, stderr, stdout, rcVars, scanVars>>

\* idx, err := bam.ReadIndex(ifh); pcheck(err)
ReadIndex ==
  /\ pc = "read_index"
  /\ \E ok \in BOOLEAN :
       IF ok THEN pc' = "refs" /\ panic' = panic ELSE Panic("bam.ReadIndex")
  /\ UNCHANGED <<inputs, mainVars, rcVars, scanVars>>

\* One reference of the header loop.  idx.ReferenceStats(id) indexes the
\* references of the index without a bounds check: an id past them panics; a
\* reference the index holds no statistics for is a miss.
HeaderRef ==
  /\ pc = "refs" /\ refi <= Len(header)
  /\ IF refi > Len(index)
     THEN /\ Panic("index out of range")
          /\ UNCHANGED <<refi, genomeBases, mapped, stderr>>
     ELSE LET stats == index[refi]
          IN  /\ genomeBases' = GenomeBasesAfter(genomeBases, header[refi], stats.ok)
              /\ mapped' = MappedAfter(mapped, stats)
              /\ stderr' = IF stats.ok THEN stderr ELSE Append(stderr, Warning(refi))
              /\ refi' = refi + 1
              /\ UNCHANGED <<pc, panic>>
  /\ UNCHANGED <<inputs, open, stdout, rcVars, scanVars>>

\* The loop is over; readCoverage is called when a region file is given.
HeaderDone ==
  /\ pc = "refs" /\ refi > Len(header)
  /\ pc' = IF regions THEN "rc_open" ELSE "scan"
  /\ UNCHANGED <<panic, inputs, mainVars, rcVars, scanVars>>

\* fh, err := xopen.Ropen(path); pcheck(err); cov := 0
RcOpen ==
  /\ pc = "rc_open"
  /\ \E ok \in BOOLEAN :
       IF ok
       THEN /\ open' = open \cup {"regions"} /\ pc' = "rc_loop" /\ panic' = panic
            /\ rcRest' = regionBytes /\ cov' = Zero64
       ELSE Panic("xopen.Ropen") /\ UNCHANGED <<open, rcVars>>
  /\ UNCHANGED <<inputs, refi, genomeBases, mapped, stderr, stdout, scanVars>>

\* One turn of readCoverage's loop; at io.EOF it returns and Main assigns
\* genomeBases.
RcReadLine ==
  /\ pc = "rc_loop"
  /\ LET r == readLine(rcRest, cov)
     IN  /\ rcRest' = r.rest
         /\ cov' = r.cov
         /\ IF r.kind = "panic" THEN Panic(r.why) /\ genomeBases' = genomeBases
            ELSE IF r.kind = "return"
            THEN pc' = "scan" /\ panic' = panic /\ genomeBases' = r.cov
            ELSE UNCHANGED <<pc, panic, genomeBases>>
  /\ UNCHANGED <<inputs, open, refi, mapped, stderr, stdout, scanVars>>

\* ------------------------------------------------------------ BamInsertSizes
ScanContinuesWhileEitherShort == Len(insertSizes) < n /\ Len(sizes) < n

\* for len(insertSizes) < n
ScanContinues == Len(insertSizes) < n

\* The loop condition fails: the sample is complete.
ScanExit ==
  /\ pc = "scan" /\ ~ScanContinues
  /\ pc' = "summary"
  /\ UNCHANGED <<panic, inputs, mainVars, rcVars, scanVars>>

\* br.Read() reports io.EOF.
ScanEOF ==
  /\ pc = "scan" /\ ScanContinues /\ idx = Len(stream)
  /\ pc' = "summary"
  /\ UNCHANGED <<panic, inputs, mainVars, rcVars, scanVars>>

\* br.Read() fails in another way: pcheck panics.
ScanReadError ==
  /\ pc = "scan" /\ ScanContinues
  /\ Panic("bam.Reader.Read")
  /\ UNCHANGED <<inputs, mainVars, rcVars, scanVars>>

\* br.Read() returns the next record.
ScanRecord ==
  /\ pc = "scan" /\ ScanContinues /\ idx < Len(stream)
  /\ LET rec == stream[idx + 1]
     IN  IF Filtered(rec)
         THEN UNCHANGED <<sizes, insertSizes, templateLengths>>
         ELSE /\ sizes' = AppendSize(sizes, n, rec)
              /\ insertSizes' = AppendInsert(insertSizes, rec)
              /\ templateLengths' = AppendTemplate(templateLengths, rec)
  /\ idx' = idx + 1
  /\ UNCHANGED <<pc, panic, inputs, mainVars, rcVars, ret>>

\* sort.Ints(sizes), then the statistics.
Summarise ==
  /\ pc = "summary"
  /\ sizes' = SortInts(sizes)
  /\ LET s == summary(SortInts(sizes), insertSizes, templateLengths)
     IN  IF s.kind = "panic"
         THEN Panic("index out of range") /\ ret' = ret
         ELSE pc' = "coverage" /\ panic' = panic /\ ret' = s
  /\ UNCHANGED <<inputs, mainVars, rcVars, idx, insertSizes, templateLengths>>

\* coverage := float64(mapped) * sizes.ReadLengthMedian / float64(genomeBases),
\* and the output line.
Report ==
  /\ pc = "coverage"
  /\ stdout' = Append(stdout,
       [kind |-> "line",
        coverage |-> Coverage(mapped, ret.ReadLengthMedian, genomeBases),
        InsertMean |-> ret.InsertMean, InsertSD |-> ret.InsertSD,
        TemplateMean |-> ret.TemplateMean, TemplateSD |-> ret.TemplateSD])
  /\ pc' = "done"
  /\ UNCHANGED <<panic, inputs, open, refi, genomeBases, mapped, stderr, rcVars, scanVars>>

\* ---------------------------------------------------------- the specifications
MainStreams ==
  { <<>>,
    <<Rec(1 + ProperPair, 10, 30, 25, <<Op("M", 5)>>)>>,
    <<Rec(0, 10, 10, 0, <<Op("M", 1)>>)>>,
    <<Rec(1 + ProperPair + Secondary, 10, 30, 25, <<Op("M", 5)>>)>>,
    <<Rec(1, 10, 30, 25, <<Op("M", 6)>>),
      Rec(1 + ProperPair, 10, 30, 25, <<Op("M", 5)>>)>> }

MainRegionFiles ==
  { <<>>,
    <<"c", TAB, "0", TAB, "7", NL>>,
    <<"c", TAB, "7", TAB, "7", NL>>,
    <<"c", TAB, "0", TAB, "7">>,
    <<"c", TAB, "7", NL, NL>>,
    \* -2^63 to 2^63 - 1: end - start wraps to -1
    <<"c", TAB, "-", "9", "2", "2", "3", "3", "7", "2", "0", "3", "6", "8", "5",
      "4", "7", "7", "5", "8", "0", "8", TAB, "9", "2", "2", "3", "3", "7", "2",
      "0", "3", "6", "8", "5", "4", "7", "7", "5", "8", "0", "7", NL>> }

Headers == SeqsUpTo(RefLens, MaxRefs)

\* A whole run of Main.
Init ==
  /\ pc = "parse" /\ Fresh
  /\ n \in 0..MaxN
  /\ bamLen \in {SuffixLen - 1, SuffixLen + 1}
  /\ \/ regions = FALSE /\ regionBytes = <<>>
     \/ regions = TRUE /\ regionBytes \in MainRegionFiles
  /\ header \in Headers
  /\ index \in SeqsUpTo(StatsPool, Len(header))
  /\ stream \in MainStreams

Next ==
  \/ ParseArgs \/ LogPath
  \/ OpenBam \/ NewReader \/ OpenIndex \/ ReadIndex
  \/ HeaderRef \/ HeaderDone
  \/ RcOpen \/ RcReadLine
  \/ ScanExit \/ ScanEOF \/ ScanReadError \/ ScanRecord
  \/ Summarise \/ Report

Spec == Init /\ [][Next]_vars

\* BamInsertSizes on its own, over every stream and sample cap of the bounds.
InitScan ==
  /\ pc = "scan" /\ Fresh
  /\ n \in 1..MaxN
  /\ bamLen = SuffixLen + 1
  /\ regions = FALSE /\ regionBytes = <<>>
  /\ header = <<>> /\ index = <<>>
  /\ stream \in Streams

NextScan == ScanExit \/ ScanEOF \/ ScanReadError \/ ScanRecord \/ Summarise

SpecScan == InitScan /\ [][NextScan]_vars

\* The streams the termination of the scan is checked over: pairs, records kept
\* for their read length alone, and filtered records.
TerminationPool ==
  { Rec(1 + ProperPair, 10, 30, 25, <<Op("M", 5)>>),
    Rec(ProperPair + Duplicate, 10, 40, 38, <<Op("M", 8)>>),
    Rec(1 + ProperPair, 10, 30, 25, <<Op("S", 2), Op("M", 3)>>),
    Rec(0, 10, 10, 0, <<Op("M", 1)>>),
    Rec(1 + ProperPair + Secondary, 10, 30, 25, <<Op("M", 5)>>) }

InitTermination ==
  /\ pc = "scan" /\ Fresh
  /\ n \in 1..MaxN
  /\ bamLen = SuffixLen + 1
  /\ regions = FALSE /\ regionBytes = <<>>
  /\ header = <<>> /\ index = <<>>
  /\ stream \in SeqsUpTo(TerminationPool, MaxStream)

\* The loop runs on: the program is sequential and each step is taken.
FairScan == InitTermination /\ [][NextScan]_vars /\ WF_vars(NextScan)

\* readCoverage on its own, over every file of the bounds.
InitRegions ==
  /\ pc = "rc_open" /\ Fresh
  /\ n = 1
  /\ bamLen = SuffixLen + 1
  /\ regions = TRUE /\ regionBytes \in RegionFiles
  /\ header = <<>> /\ index = <<>>
  /\ stream = <<>>

NextRegions == RcOpen \/ RcReadLine

SpecRegions == InitRegions /\ [][NextRegions]_vars

\* ------------------------------------------------- the vocabulary of the claims
Min(a, b) == IF a <= b THEN a ELSE b

\* Bit f (a power of two) of the flag word.
HasFlag(rec, f) == (rec.flags \div f) % 2 = 1

HasDropFlag(rec) ==
  \E f \in {Secondary, Supplementary, Unmapped, QCFail} : HasFlag(rec, f)

\* position < matePosition, proper pair, exactly one block and that of kind match
PairCondition(rec) ==
  /\ rec.pos < rec.matePos
  /\ HasFlag(rec, ProperPair)
  /\ \E l \in 0..100 : rec.cigar = <<Op("M", l)>>

IsPair(rec) == ~HasDropFlag(rec) /\ PairCondition(rec)

IsKept(rec) == ~HasDropFlag(rec)

Count(s, T(_)) == Cardinality({i \in 1..Len(s) : T(s[i])})

ReadSoFar == SubSeq(stream, 1, idx)

ScanOver == pc \notin {"scan"}

\* C1: during the scan each of the three buffers holds at most N entries, the
\* insert-size buffer at most min(N, qualifying pairs of the stream) and the
\* read-length buffer at most min(N, non-filtered records of the stream); as the
\* buffers only grow, this holds when the scan ends too.
C1_BuffersCapped ==
  /\ Len(sizes) <= n
  /\ Len(insertSizes) <= n
  /\ Len(templateLengths) <= n
  /\ Len(insertSizes) <= Min(n, Count(stream, IsPair))
  /\ Len(sizes) <= Min(n, Count(stream, IsKept))

\* The scan has ended after reading more non-filtered records than the cap.
C1_Witness ==
  /\ pc = "summary"
  /\ Len(sizes) = n
  /\ Count(ReadSoFar, IsKept) > n

\* C2: reading a record that carries secondary, supplementary, unmapped or
\* qc-fail leaves the three buffers as they were, whatever else it carries.
C2_FilteredLeavesBuffers ==
  [][(pc = "scan" /\ idx' = idx + 1 /\ HasDropFlag(stream[idx + 1]))
       => UNCHANGED <<sizes, insertSizes, templateLengths>>]_vars

\* A filtered record that meets the pairing condition was read while both
\* buffers still had room, and nothing was appended for it.
C2_Witness ==
  /\ pc = "scan" /\ idx = 2 /\ n >= 2
  /\ IsKept(stream[1]) /\ ~IsPair(stream[1])
  /\ HasDropFlag(stream[2]) /\ PairCondition(stream[2])
  /\ Len(sizes) = 1 /\ insertSizes = <<>>

\* C3: no record is read once the insert-size buffer holds N entries, the scan
\* then ends at once, it ends in no other way than at N insert sizes or at the
\* end of the stream (a failed read aside, which aborts), and it always ends,
\* with between 0 and N read lengths.
C3_ScanTermination ==
  /\ [][Len(insertSizes) >= n => idx' = idx]_vars
  /\ [][(pc = "scan" /\ Len(insertSizes) >= n) => pc' = "summary"]_vars
  /\ [](pc = "summary" => (Len(insertSizes) = n \/ idx = Len(stream)))
  /\ <>ScanOver
  /\ [](ScanOver => Len(sizes) \in 0..n)

\* The scan went on after the read-length buffer was full and ended at N insert
\* sizes with a record left unread.
C3_Witness ==
  /\ pc = "summary"
  /\ Len(insertSizes) = n
  /\ idx < Len(stream)
  /\ Count(ReadSoFar, IsKept) > n

\* A reference of the header the index has no entry for: its id is past the
\* references of the index, or the index holds no statistics for it.
NotInIndex(ref) == ref > Len(index) \/ ~index[ref].ok

\* C4: with no region file, a reference of the header that has no entry in the
\* index adds nothing to mapped, writes exactly one warning, does not abort the
\* run, and its length is still added to genomeBases.
C4_MissingRefAddsLength ==
  [][(pc = "refs" /\ ~regions /\ refi <= Len(header) /\ NotInIndex(refi))
       => /\ pc' = "refs" /\ refi' = refi + 1
          /\ mapped' = mapped
          /\ stderr' = Append(stderr, Warning(refi))
          /\ genomeBases' = I64Add(genomeBases, I64FromInt(header[refi]))]_vars

\* C5: a scan that ends with no read length ends in an explicit "insufficient
\* samples" outcome: no panic from indexing the empty slice, no numeric result.
C5_EmptyReadLengthsInsufficient ==
  (ScanOver /\ pc # "summary" /\ panic # "bam.Reader.Read" /\ sizes = <<>>)
    => (pc # "panic" /\ ret.kind = "insufficient samples")

\* C6: with read lengths but no insert size, the insert and template statistics
\* are reported as "insufficient samples", not as numbers.
C6_EmptyInsertsInsufficient ==
  (pc = "coverage" /\ sizes # <<>> /\ insertSizes = <<>> /\ templateLengths = <<>>)
    => /\ ret.InsertMean.kind = "insufficient samples"
       /\ ret.InsertSD.kind = "insufficient samples"
       /\ ret.TemplateMean.kind = "insufficient samples"
       /\ ret.TemplateSD.kind = "insufficient samples"

\* C7: with genomeBases 0 when the coverage is computed, Main fails and writes
\* no output line.
C7_ZeroBasesRejected ==
  /\ pc = "done" => genomeBases # Zero64
  /\ (\E i \in 1..Len(stdout) : stdout[i].kind = "line") => genomeBases # Zero64

\* Every piece of s between occurrences of sep.
RECURSIVE SplitAll(_, _)
SplitAll(s, sep) ==
  LET i == IndexOf(s, sep)
  IN  IF i = 0 THEN <<s>>
      ELSE <<SubSeq(s, 1, i - 1)>> \o SplitAll(SubSeq(s, i + 1, Len(s)), sep)

\* The integer a Go int stands for, when it is below 2^31 in size.
I64ToInt(a) ==
  LET m == IF I64Negative(a) THEN I64Neg(a) ELSE a
      v == m[1] + LimbBase * m[2]
  IN  IF I64Negative(a) THEN -v ELSE v

\* The lines of a file: a last line need not end in a newline.
FileLines(bytes) ==
  LET p == SplitAll(bytes, NL)
  IN  IF p[Len(p)] = <<>> THEN SubSeq(p, 1, Len(p) - 1) ELSE p

LineOk(l) ==
  \/ l = <<>>
  \/ LET f == SplitAll(l, TAB)
     IN  Len(f) >= 3 /\ Atoi(f[2]).ok /\ Atoi(f[3]).ok

LineBases(l) ==
  IF l = <<>> THEN 0
  ELSE LET f == SplitAll(l, TAB) IN I64ToInt(Atoi(f[3]).val) - I64ToInt(Atoi(f[2]).val)

FileOk(bytes) == \A i \in 1..Len(FileLines(bytes)) : LineOk(FileLines(bytes)[i])

FileBases(bytes) ==
  SumSeq([i \in 1..Len(FileLines(bytes)) |-> LineBases(FileLines(bytes)[i])])

\* C8: on a file whose non-empty lines each have three fields or more with
\* integer start and end (integers a Go int holds), readCoverage does not fail
\* on a line and returns the sum of end - start over the non-empty lines, an
\* unterminated last line included.
C8_RegionTotal ==
  FileOk(regionBytes)
    => /\ pc = "panic" => panic = "xopen.Ropen"
       /\ pc = "scan" => genomeBases = I64FromInt(FileBases(regionBytes))

\* C9: no handle is left open when Main has ended, by success or by a panic, nor
\* the region file's when readCoverage has returned.
C9_HandlesReleased ==
  /\ pc \in {"done", "panic", "exit"} => open = {}
  /\ pc \in {"scan", "summary", "coverage"} => "regions" \notin open

\* The insert sizes and template lengths the claim gives for a run of records:
\* those of the qualifying records, in order.
PairsOf(s) == SelectSeq(s, IsPair)

\* C10: the insert-size and template-length buffers are, after any prefix of the
\* stream, matePosition - alignmentEnd and the template length of the qualifying
\* non-filtered records read so far, in stream order: one entry each per such
\* record and none for any other, the read-length buffer full or not.
C10_PairBuffers ==
  LET q == PairsOf(ReadSoFar)
  IN  /\ insertSizes = [i \in 1..Len(q) |-> q[i].matePos - (q[i].pos + q[i].cigar[1].len)]
      /\ templateLengths = [i \in 1..Len(q) |-> q[i].tempLen]

\* A qualifying record was appended after the read-length buffer was full, and
\* a single-block record of another kind was passed over.
C10_Witness ==
  /\ idx = 3 /\ n = 1
  /\ IsKept(stream[1]) /\ ~IsPair(stream[1])
  /\ IsKept(stream[2]) /\ Len(stream[2].cigar) = 1 /\ ~IsPair(stream[2])
  /\ IsPair(stream[3])
  /\ Len(insertSizes) = 1 /\ Len(sizes) = 1

====
